---- MODULE Spec2Model ----
(***************************************************************************)
(* PapersChatbot: the paper store (searchPapers / extractInfo), the local  *)
(* tool adapter (executeTool) and the chat loops built on them.            *)
(*                                                                         *)
(* Strings are sequences of tokens (one token per character, with a few    *)
(* multi-character chunks such as "papers" standing for text that no       *)
(* operation of the program looks inside).  A path is a sequence of        *)
(* segments, each segment a string; <<>> is the working directory.         *)
(***************************************************************************)
EXTENDS Integers, Sequences, FiniteSets, TLC

VARIABLES
    dirs,       \* file system: the set of directories that exist (paths)
    files,      \* file system: path -> file content
    lastCall,   \* the last tool call and how it ended
    nCalls,     \* number of tool calls made so far
    program,    \* which program of the repository is running
    proc,       \* the process: "running", "exited", "crashed" or "hung"
    prompting,  \* rl.question is waiting for a line
    turns,      \* the user turns started so far, each with its position
    inputs,     \* the module-level conversation history (local chatbot)
    printed,    \* what the chat loop has written for the user
    nLines,     \* number of user lines read so far
    lastLine,   \* the line the rl.question callback last received
    writing,    \* the write of a partition file the server process is in
    callSeq,    \* number of tool-call requests the model has issued
    tools,      \* the tool catalog variable of the chatbot
    prompts,    \* the prompt list variable of the protocol chatbot
    resources,  \* the resource list variable of the protocol chatbot
    runtime     \* what the runtime does with an unhandled promise rejection

storeVars == <<dirs, files>>

startVars == <<tools, prompts, resources, runtime>>

chatVars == <<proc, prompting, turns, inputs, printed, nLines, lastLine,
              writing, callSeq, tools, prompts, resources, runtime>>

vars == <<dirs, files, lastCall, nCalls, program, proc, prompting, turns,
          inputs, printed, nLines, lastLine, writing, callSeq, tools, prompts,
          resources, runtime>>

(***************************************************************************)
(* Bounds of the model.                                                    *)
(***************************************************************************)
MaxFeedLen == 2
MaxCalls == 2
MaxLines == 2

(***************************************************************************)
(* Strings.                                                                *)
(***************************************************************************)
Last(s) == s[Len(s)]

Front(s) == SubSeq(s, 1, Len(s) - 1)

Whitespace == {" ", "\t"}

\* String.prototype.toLowerCase, on the letters the model uses
LowerChar(c) ==
    IF c = "Q" THEN "q" ELSE IF c = "C" THEN "c"
    ELSE IF c = "Quit" THEN "quit" ELSE c

ToLowerCase(s) == [i \in DOMAIN s |-> LowerChar(s[i])]

\* s.replace(/\s+/g, "_"): every maximal run of whitespace becomes one "_"
RECURSIVE ReplaceWsRuns(_)
ReplaceWsRuns(s) ==
    IF s = <<>> THEN <<>>
    ELSE IF Head(s) \in Whitespace
         THEN IF Len(s) > 1 /\ s[2] \in Whitespace
              THEN ReplaceWsRuns(Tail(s))
              ELSE <<"_">> \o ReplaceWsRuns(Tail(s))
         ELSE <<Head(s)>> \o ReplaceWsRuns(Tail(s))

\* s.split(sep): "" gives [""], "a/b" gives ["a", "b"]
RECURSIVE SplitFrom(_, _, _, _)
SplitFrom(s, sep, cur, out) ==
    IF s = <<>> THEN Append(out, cur)
    ELSE IF Head(s) = sep
         THEN SplitFrom(Tail(s), sep, <<>>, Append(out, cur))
         ELSE SplitFrom(Tail(s), sep, Append(cur, Head(s)), out)

SplitOn(s, sep) == SplitFrom(s, sep, <<>>, <<>>)

SplitSlash(s) == SplitOn(s, "/")

\* s.startsWith(prefix)
StartsWith(s, prefix) ==
    Len(s) >= Len(prefix) /\ SubSeq(s, 1, Len(prefix)) = prefix

\* s.trim()
RECURSIVE TrimLeft(_)
TrimLeft(s) ==
    IF s # <<>> /\ Head(s) \in Whitespace THEN TrimLeft(Tail(s)) ELSE s

RECURSIVE TrimRight(_)
TrimRight(s) ==
    IF s # <<>> /\ Last(s) \in Whitespace THEN TrimRight(Front(s)) ELSE s

Trim(s) == TrimRight(TrimLeft(s))

\* s.split("T")[0]
RECURSIVE BeforeT(_)
BeforeT(s) ==
    IF s = <<>> \/ Head(s) = "T" THEN <<>> ELSE <<Head(s)>> \o BeforeT(Tail(s))

(***************************************************************************)
(* Paths (node's path.join: join with "/" and normalize).                  *)
(***************************************************************************)
PAPER_DIR == <<"papers">>

INFO_FILE == <<"papers_info.json">>

DotDot == <<".", ".">>

RECURSIVE NormalizeSegs(_, _)
NormalizeSegs(acc, segs) ==
    IF segs = <<>> THEN acc
    ELSE LET s == Head(segs)
         IN  IF s = <<>> \/ s = <<".">>
             THEN NormalizeSegs(acc, Tail(segs))
             ELSE IF s = DotDot /\ acc # <<>> /\ Last(acc) # DotDot
                  THEN NormalizeSegs(Front(acc), Tail(segs))
                  ELSE NormalizeSegs(Append(acc, s), Tail(segs))

\* path.join(base, name): base a path, name a string
PathJoin(base, name) == NormalizeSegs(<<>>, base \o SplitSlash(name))

PaperDirPath == PathJoin(<<>>, PAPER_DIR)

Prefixes(p) == {SubSeq(p, 1, k) : k \in 1..Len(p)}

(***************************************************************************)
(* JavaScript values crossing the tool boundary.                           *)
(***************************************************************************)
Str(s) == [t |-> "string", s |-> s]

Num(n) == [t |-> "number", n |-> n]

Undefined == [t |-> "undefined"]

IsStr(v) == v.t = "string"

IsNum(v) == v.t = "number"

\* JSON.stringify(x): the JSON text of x
JsonText(x) == [kind |-> "json", of |-> x]

\* a plain (non-JSON) string result
Text(x) == [kind |-> "text", of |-> x]

Garbage == [kind |-> "garbage"]

\* JSON.parse succeeds exactly on JSON text
JsonParses(content) == content.kind = "json"

JsonParse(content) == content.of

(***************************************************************************)
(* The remote feed.                                                        *)
(***************************************************************************)
Entry(idUrl, n, links) ==
    [id |-> idUrl,
     title |-> <<" ", n, " ">>,
     summary |-> <<n, "\t">>,
     published |-> <<"2023-04-01", "T", "00:00:00Z">>,
     author |-> <<"A. One", "B. Two">>,
     link |-> links]

AbsUrl == <<"http:", "/", "/", "arxiv.org", "/", "abs", "/">>

\* the entries the remote endpoint can return
Entries ==
    { Entry(AbsUrl \o <<"p1">>, "t1", << [title |-> "pdf", href |-> "pdf1"] >>),
      Entry(AbsUrl \o <<"p2">>, "t2", <<>>),
      Entry(AbsUrl \o <<"hep-th", "/", "p1">>, "t3",
            << [title |-> "doi", href |-> "doi3"] >>) }

RECURSIVE SeqsUpTo(_, _)
SeqsUpTo(S, n) ==
    IF n <= 0 THEN {<<>>}
    ELSE LET shorter == SeqsUpTo(S, n - 1)
         IN  shorter \cup {Append(q, x) : q \in shorter, x \in S}

NoRepeat(q) == \A i, j \in DOMAIN q : i # j => q[i] # q[j]

\* the feeds the endpoint can return, and those of at most n entries
AllFeeds == {q \in SeqsUpTo(Entries, MaxFeedLen) : NoRepeat(q)}

Feeds(n) == {q \in AllFeeds : Len(q) <= n}

\* what the remote endpoint and the disk do during one search: the request
\* fails, the body is not a feed, a feed of at most `limit` entries arrives and
\* is stored, or a feed arrives and the partition file cannot be opened or
\* cannot be written to the end
NetOutcomes(limit) ==
    { [kind |-> "http_error"], [kind |-> "bad_xml"],
      [kind |-> "disk_open_error"], [kind |-> "disk_write_error"] }
    \cup { [kind |-> "feed", feed |-> f] : f \in Feeds(limit) }

(***************************************************************************)
(* searchPapers                                                            *)
(***************************************************************************)
\* entry.id[0].split("/").pop()
EntryId(entry) == Last(SplitSlash(entry.id))

\* (entry.link.find(l => l.$.title === "pdf") || { $: {} }).$.href || ""
PdfLink(entry) ==
    LET hits == {i \in DOMAIN entry.link : entry.link[i].title = "pdf"}
    IN  IF hits = {} THEN ""
        ELSE entry.link[CHOOSE i \in hits : \A j \in hits : i <= j].href

PaperInfo(entry) ==
    [title |-> Trim(entry.title),
     authors |-> entry.author,
     summary |-> Trim(entry.summary),
     pdf_url |-> PdfLink(entry),
     published |-> BeforeT(entry.published)]

\* paperIds after the forEach over the entries
PaperIds(feed) == [i \in DOMAIN feed |-> EntryId(feed[i])]

\* papersInfo after the forEach: a later entry with the same id replaces an
\* earlier one
PapersInfo(feed) ==
    LET ids == {EntryId(feed[i]) : i \in DOMAIN feed}
        last(id) == CHOOSE i \in DOMAIN feed :
                        /\ EntryId(feed[i]) = id
                        /\ \A j \in DOMAIN feed : EntryId(feed[j]) = id => j <= i
    IN  [id \in ids |-> PaperInfo(feed[last(id)])]

\* topic.toLowerCase().replace(/\s+/g, "_")
TopicKey(topic) == ReplaceWsRuns(ToLowerCase(topic))

\* path.join(PAPER_DIR, key)
TopicDir(topic) == PathJoin(PaperDirPath, TopicKey(topic))

\* path.join(topicDir, "papers_info.json")
PartitionFile(topic) == PathJoin(TopicDir(topic), INFO_FILE)

\* fs.mkdirSync(p, { recursive: true }) fails when a file is in the way
MkdirFails(fl, p) == \E q \in Prefixes(p) : q \in DOMAIN fl

MkdirRecursive(ds, p) == ds \cup Prefixes(p)

\* a write that merges the new object into the one already stored
WriteFileMerging(fl, p, text) ==
    LET old == fl[p].of
        new == text.of
        merged == [id \in DOMAIN old \cup DOMAIN new |->
                      IF id \in DOMAIN new THEN new[id] ELSE old[id]]
    IN  [q \in DOMAIN fl \cup {p} |->
           IF q # p THEN fl[q]
           ELSE IF p \in DOMAIN fl /\ fl[p].kind = "json" /\ text.kind = "json"
                THEN [kind |-> "json", of |-> merged]
                ELSE text]

\* a write that keeps one file only, as a store held in a single file would
WriteFileAlone(fl, p, text) == [q \in {p} |-> text]

\* a write that removes the file instead of storing an empty object
WriteFileOrRemove(fl, p, text) ==
    IF text.kind = "json" /\ DOMAIN text.of = {}
    THEN [q \in DOMAIN fl \ {p} |-> fl[q]]
    ELSE [q \in DOMAIN fl \cup {p} |-> IF q = p THEN text ELSE fl[q]]

\* fs.writeFileSync(p, text): replaces the whole content of p
WriteFile(fl, p, text) ==
    [q \in DOMAIN fl \cup {p} |-> IF q = p THEN text ELSE fl[q]]

\* the request searchPapers sends
ApiRequest(topic, maxResults) ==
    [search_query |-> topic, start |-> 0, max_results |-> maxResults,
     sortBy |-> "relevance"]

\* number of entries the endpoint may return for a max_results value
FeedLimit(maxResults) ==
    IF IsNum(maxResults) /\ maxResults.n > 0
    THEN IF maxResults.n < MaxFeedLen THEN maxResults.n ELSE MaxFeedLen
    ELSE 0

\* an operation that catches the exception and answers with an empty list
Swallowed(ds, fl, reqs, err) ==
    [status |-> "returned", value |-> <<>>, dirs |-> ds, files |-> fl,
     requests |-> reqs]

\* an operation that fails and takes the stored files with it
ThrewAndCleared(ds, fl, reqs, err) ==
    [status |-> "threw", value |-> Text(<<err>>), dirs |-> ds, files |-> <<>>,
     requests |-> reqs]

Threw(ds, fl, reqs, err) ==
    [status |-> "threw", value |-> Text(<<err>>), dirs |-> ds, files |-> fl,
     requests |-> reqs]

Returned(ds, fl, reqs, v) ==
    [status |-> "returned", value |-> v, dirs |-> ds, files |-> fl,
     requests |-> reqs]

\* searchPapers(topic, maxResults = 5) on the file system (ds, fl); net is what
\* the endpoint and the disk do
SearchPapers(ds, fl, topic, maxResultsArg, net) ==
    LET maxResults == IF maxResultsArg = Undefined THEN Num(5) ELSE maxResultsArg
        reqs == << ApiRequest(topic, maxResults) >>
    IN  IF net.kind = "http_error" THEN Threw(ds, fl, reqs, "AxiosError")
        ELSE IF net.kind = "bad_xml" THEN Threw(ds, fl, reqs, "XmlError")
        ELSE IF ~IsStr(topic) THEN Threw(ds, fl, reqs, "TypeError")
        ELSE LET topicDir == TopicDir(topic.s)
                 filePath == PartitionFile(topic.s)
             IN  IF MkdirFails(fl, topicDir) THEN Threw(ds, fl, reqs, "EEXIST")
                 ELSE LET ds2 == MkdirRecursive(ds, topicDir)
                      IN  IF filePath \in ds2 \/ filePath = <<>>
                          THEN Threw(ds2, fl, reqs, "EISDIR")
                          ELSE IF net.kind = "disk_open_error"
                          THEN Threw(ds2, fl, reqs, "EACCES")
                          ELSE IF net.kind = "disk_write_error"
                          THEN \* opened with flag "w" (truncated), then the
                               \* write failed: the file holds a partial text
                               Threw(ds2, WriteFile(fl, filePath, Garbage), reqs,
                                     "ENOSPC")
                          ELSE Returned(ds2,
                                        WriteFile(fl, filePath,
                                                  JsonText(PapersInfo(net.feed))),
                                        reqs, PaperIds(net.feed))

(***************************************************************************)
(* extractInfo                                                             *)
(***************************************************************************)
\* fs.readdirSync(PAPER_DIR): the names directly under the paper directory
DirNames(ds, fl) ==
    {p[Len(p)] : p \in {q \in ds \cup DOMAIN fl :
                          Len(q) = Len(PaperDirPath) + 1
                          /\ SubSeq(q, 1, Len(PaperDirPath)) = PaperDirPath}}

RECURSIVE Perms(_)
Perms(S) ==
    IF S = {} THEN {<<>>}
    ELSE UNION {{<<x>> \o q : q \in Perms(S \ {x})} : x \in S}

\* the orders in which readdirSync may list the directory
ScanOrders(ds, fl) == Perms(DirNames(ds, fl))

\* `${v}` in a template literal
ToText(v) ==
    IF IsStr(v) THEN v.s
    ELSE IF IsNum(v) THEN <<"number", v.n>>
    ELSE <<"undefined">>

NotFoundText(paperId) ==
    Text(<<"There's no saved information related to paper ">> \o ToText(paperId)
         \o <<".">>)

\* the for loop of extractInfo over the listed names
RECURSIVE ScanDirs(_, _, _, _)
ScanDirs(ds, fl, order, paperId) ==
    IF order = <<>> THEN Returned(ds, fl, <<>>, NotFoundText(paperId))
    ELSE LET filePath == PaperDirPath \o <<Head(order), INFO_FILE>>
         IN  IF filePath \in ds
             THEN Threw(ds, fl, <<>>, "EISDIR")
             ELSE IF filePath \notin DOMAIN fl
             THEN ScanDirs(ds, fl, Tail(order), paperId)
             ELSE IF ~JsonParses(fl[filePath])
             THEN Threw(ds, fl, <<>>, "SyntaxError")
             ELSE LET data == JsonParse(fl[filePath])
                  IN  IF IsStr(paperId) /\ paperId.s \in DOMAIN data
                      THEN Returned(ds, fl, <<>>, JsonText(data[paperId.s]))
                      ELSE ScanDirs(ds, fl, Tail(order), paperId)

\* a scan that gives up after the first listed name
ExtractInfoFirstOnly(ds, fl, paperId, order) ==
    IF PaperDirPath \notin ds THEN Threw(ds, fl, <<>>, "ENOENT")
    ELSE ScanDirs(ds, fl, SubSeq(order, 1, 1), paperId)

\* extractInfo(paperId); order is the listing order of the paper directory
ExtractInfo(ds, fl, paperId, order) ==
    IF PaperDirPath \notin ds THEN Threw(ds, fl, <<>>, "ENOENT")
    ELSE ScanDirs(ds, fl, order, paperId)

(***************************************************************************)
(* The local tool adapter.                                                 *)
(***************************************************************************)
\* the own keys of toolFunctionMap
ToolNames == {"search_papers", "extract_info"}

\* keys every object literal inherits from Object.prototype: functions ...
InheritedFunctions == {"constructor", "toString"}

\* ... and a non-function
InheritedObjects == {"__proto__"}

\* a map whose lookup key is spelt the way the protocol server names the tool
ToolLookupRenamed(toolName) ==
    toolName \in {"search_papers", "extractInfo"}
                   \cup InheritedFunctions \cup InheritedObjects

\* toolFunctionMap[toolName] is truthy
ToolLookupTruthy(toolName) ==
    toolName \in ToolNames \cup InheritedFunctions \cup InheritedObjects

ToolNotFound == Text(<<"Tool not found.">>)

\* Object.values(toolArgs): the values in key order; args is a sequence of
\* <<key, value>> pairs
ObjectValues(args) == [i \in DOMAIN args |-> args[i][2]]

Arg(vals, i) == IF i <= Len(vals) THEN vals[i] ELSE Undefined

\* executeTool(toolName, toolArgs); env is what the world does during the call
ExecuteTool(ds, fl, toolName, toolArgs, env) ==
    LET vals == ObjectValues(toolArgs)
    IN  IF ~ToolLookupTruthy(toolName) THEN Returned(ds, fl, <<>>, ToolNotFound)
        ELSE IF toolName \in InheritedObjects
        THEN Threw(ds, fl, <<>>, "TypeError")
        ELSE IF toolName \in InheritedFunctions
        THEN \* Object(...vals) gives an object, Object.prototype.toString a
             \* string: neither is the not-found text
             IF toolName = "constructor"
             THEN Returned(ds, fl, <<>>, JsonText(vals))
             ELSE Returned(ds, fl, <<>>, Text(<<"[object Object]">>))
        ELSE IF toolName = "search_papers"
        THEN LET r == SearchPapers(ds, fl, Arg(vals, 1), Arg(vals, 2), env.net)
             IN  IF r.status = "returned"
                 THEN [r EXCEPT !.value = JsonText(r.value)]
                 ELSE r
        ELSE ExtractInfo(ds, fl, Arg(vals, 1), env.order)

(***************************************************************************)
(* Inputs of the tool adapter.                                             *)
(***************************************************************************)
Topics ==
    { <<"q", " ", "c">>,            \* "q c"
      <<"Q", " ", "\t", "C">>,      \* "Q \tC": the same key as "q c"
      <<"a", "/", "b">> }           \* "a/b"

\* "a//b": another spelling of the path that "a/b" names
DoubledSlashTopic == <<"a", "/", "/", "b">>

Counts == {Num(-1), Num(0), Num(2)}

PaperIdInputs == {<<"p1">>, <<"p2">>, <<"zz">>}

SearchArgs ==
    { << <<"topic", Str(t)>>, <<"max_results", n>> >> : t \in Topics, n \in Counts }
    \cup { << <<"topic", Str(<<"q", " ", "c">>)>> >> }
    \cup { << <<"topic", Str(DoubledSlashTopic)>>, <<"max_results", Num(2)>> >> }

LookupArgs == { << <<"paper_id", Str(i)>> >> : i \in PaperIdInputs }

OtherToolNames == {"bogus", "constructor", "toString", "__proto__"}

NoNet == [kind |-> "none"]

\* the server process is in no write
NoWrite == [turn |-> 0]

Absent == [kind |-> "absent"]

ContentOf(fl, p) == IF p \in DOMAIN fl THEN fl[p] ELSE Absent

(***************************************************************************)
(* The adapter driven directly: any sequence of executeTool calls.         *)
(***************************************************************************)
NoCall ==
    [tool |-> "none", args |-> <<>>, status |-> "none", value |-> Text(<<>>),
     requests |-> <<>>, net |-> NoNet, before |-> Absent, id |-> <<>>]

\* one executeTool call, from its start to the settling of its promise
Invoke(toolName, toolArgs, env, before) ==
    \E r \in {ExecuteTool(dirs, files, toolName, toolArgs, env)} :
        /\ nCalls < MaxCalls
        /\ dirs' = r.dirs
        /\ files' = r.files
        /\ lastCall' = [tool |-> toolName, args |-> toolArgs, status |-> r.status,
                        value |-> r.value, requests |-> r.requests,
                        net |-> env.net, before |-> before, id |-> <<>>]
        /\ nCalls' = nCalls + 1
        /\ UNCHANGED <<program, chatVars>>

InvokeSearch ==
    \E a \in SearchArgs :
      \E net \in NetOutcomes(FeedLimit(IF Len(a) > 1 THEN a[2][2] ELSE Num(5))) :
        Invoke("search_papers", a, [net |-> net, order |-> <<>>],
               ContentOf(files, PartitionFile(a[1][2].s)))

InvokeLookup ==
    \E a \in LookupArgs : \E order \in ScanOrders(dirs, files) :
        Invoke("extract_info", a, [net |-> NoNet, order |-> order], Absent)

InvokeOther ==
    \E name \in OtherToolNames :
        Invoke(name, <<>>, [net |-> NoNet, order |-> <<>>], Absent)

\* the paper directory may or may not exist when the program starts: only a
\* search creates it
InitStore ==
    /\ dirs \in {{}, {PaperDirPath}}
    /\ files = <<>>
    /\ lastCall = NoCall
    /\ nCalls = 0

InitChatIdle ==
    /\ proc = "running"
    /\ prompting = FALSE
    /\ turns = <<>>
    /\ inputs = <<>>
    /\ printed = <<>>
    /\ nLines = 0
    /\ lastLine = <<>>
    /\ writing = NoWrite
    /\ callSeq = 0
    /\ tools = [defined |-> FALSE, list |-> <<>>]
    /\ prompts = [defined |-> FALSE, list |-> <<>>]
    /\ resources = [defined |-> FALSE, list |-> <<>>]
    /\ runtime = "crash"

InitTools == InitStore /\ InitChatIdle /\ program = "tools"

NextTools == InvokeSearch \/ InvokeLookup \/ InvokeOther

SpecTools == InitTools /\ [][NextTools]_vars

(***************************************************************************)
(* The adapter called with argument objects as the model may write them:   *)
(* JSON.parse keeps the keys in the order of the text.                     *)
(***************************************************************************)
\* toolArgs[key]
Get(args, key) ==
    IF \E i \in DOMAIN args : args[i][1] = key
    THEN args[CHOOSE i \in DOMAIN args : args[i][1] = key][2]
    ELSE Undefined

ReorderedSearchArgs ==
    { << <<"max_results", n>>, <<"topic", Str(t)>> >> : t \in Topics, n \in Counts }

OrderedSearchArgs ==
    { << <<"topic", Str(t)>>, <<"max_results", n>> >> : t \in Topics, n \in Counts }

KeyedSearchArgs == OrderedSearchArgs \cup ReorderedSearchArgs

\* searchPapers receives Object.values(toolArgs): the endpoint and the partition
\* are those of the values in key order
InvokeKeyedSearch ==
    \E a \in KeyedSearchArgs :
      \E net \in NetOutcomes(FeedLimit(Arg(ObjectValues(a), 2))) :
        Invoke("search_papers", a, [net |-> net, order |-> <<>>],
               IF IsStr(Arg(ObjectValues(a), 1))
               THEN ContentOf(files, PartitionFile(Arg(ObjectValues(a), 1).s))
               ELSE Absent)

InitKeyed == InitStore /\ InitChatIdle /\ program = "tools"

NextKeyed == InvokeKeyedSearch \/ InvokeLookup

SpecKeyed == InitKeyed /\ [][NextKeyed]_vars

(***************************************************************************)
(* Searches answered by whatever the endpoint sends: the id of an entry is *)
(* read from the feed and is not validated.                                *)
(***************************************************************************)
\* an entry whose id URL ends with "/": it has an empty last segment
BareEntry == Entry(AbsUrl, "t4", <<>>)

AnyFeeds == {q \in SeqsUpTo(Entries \cup {BareEntry}, MaxFeedLen) : NoRepeat(q)}

InvokeFeedSearch ==
    \E t \in {<<"q", " ", "c">>, <<"a", "/", "b">>} :
      \E f \in AnyFeeds :
        Invoke("search_papers", << <<"topic", Str(t)>> >>,
               [net |-> [kind |-> "feed", feed |-> f], order |-> <<>>],
               ContentOf(files, PartitionFile(t)))

InitFeed == InitStore /\ InitChatIdle /\ program = "tools"

NextFeed == InvokeFeedSearch \/ InvokeLookup

SpecFeed == InitFeed /\ [][NextFeed]_vars

(***************************************************************************)
(* Lookups on a store that earlier runs of the program have left on disk.  *)
(***************************************************************************)
EarlierTopics == { <<"q", " ", "c">>, <<"x">>, <<"a", "/", "b">> }

\* what the endpoint and the disk did during a search of an earlier run
EarlierNets ==
    { [kind |-> "disk_open_error"], [kind |-> "disk_write_error"],
      [kind |-> "feed", feed |-> <<>>] }
    \cup { [kind |-> "feed", feed |-> <<e>>] : e \in Entries }

\* the stores that at most k searches leave, starting from nothing
RECURSIVE StoresAfter(_)
StoresAfter(k) ==
    IF k = 0
    THEN { [dirs |-> {}, files |-> <<>>] }
    ELSE LET prev == StoresAfter(k - 1)
         IN  prev \cup
             { [dirs |-> r.dirs, files |-> r.files] :
                 r \in { SearchPapers(st.dirs, st.files, Str(t), Num(1), net) :
                           st \in prev, t \in EarlierTopics,
                           net \in EarlierNets } }

EarlierStores == StoresAfter(MaxCalls)

InitScan ==
    /\ \E st \in EarlierStores : dirs = st.dirs /\ files = st.files
    /\ lastCall = NoCall
    /\ nCalls = 0
    /\ InitChatIdle
    /\ program = "tools"

SpecScan == InitScan /\ [][InvokeLookup]_vars

(***************************************************************************)
(* The model endpoint and the user.                                        *)
(***************************************************************************)
Message == [type |-> "message", text |-> <<"answer">>]

FunctionCall(name, args, id) ==
    [type |-> "function_call", name |-> name, arguments |-> JsonText(args),
     call_id |-> id]

Reasoning == [type |-> "reasoning"]

\* a tool-call request whose arguments text is cut off: JSON.parse throws on it
MalformedCall(name, id) ==
    [type |-> "function_call", name |-> name, arguments |-> Garbage,
     call_id |-> id]

\* response.output_text: the text of the message items, concatenated
RECURSIVE OutputText(_)
OutputText(output) ==
    IF output = <<>> THEN <<>>
    ELSE (IF Head(output).type = "message" THEN Head(output).text ELSE <<>>)
         \o OutputText(Tail(output))

\* a parse that accepts any arguments text
ArgumentsParseLenient(item) == item.type = "function_call"

\* JSON.parse(item.arguments) succeeds
ArgumentsParse(item) ==
    item.type = "function_call" /\ JsonParses(item.arguments)

\* the tool-call requests the model makes of the local adapter
LocalCalls ==
    { <<"search_papers",
        << <<"topic", Str(<<"q", " ", "c">>)>>, <<"max_results", Num(1)>> >> >>,
      <<"extract_info", << <<"paper_id", Str(<<"p1">>)>> >> >>,
      <<"bogus", <<>> >> }

\* ... and of the protocol server
McpCalls ==
    { <<"searchPapers",
        << <<"topic", Str(<<"q", " ", "c">>)>>, <<"maxResults", Num(1)>> >> >>,
      <<"extractInfo", << <<"paperId", Str(<<"p1">>)>> >> >>,
      <<"bogus", <<>> >> }

\* the identifier the endpoint gives to the tool-call request it makes in
\* answer to submission n of turn t
CallId(t, n) == <<t, n>>

\* what the endpoint can answer to one submission; id is the call identifier
\* it gives to a tool-call request
Responses(calls, id) ==
    { [kind |-> "error", output |-> <<>>],
      [kind |-> "ok", output |-> <<Message>>],
      [kind |-> "ok", output |-> <<Reasoning, Message>>],
      [kind |-> "ok", output |-> <<>>] }
    \cup { [kind |-> "ok", output |-> <<FunctionCall(c[1], c[2], id)>>] :
             c \in calls }
    \cup { [kind |-> "ok", output |-> <<FunctionCall(c[1], c[2], id), Message>>] :
             c \in {d \in calls : d[1] = "extract_info"} }
    \cup { [kind |-> "ok", output |-> <<MalformedCall(c[1], id)>>] :
             c \in {d \in calls : d[1] \in {"search_papers", "searchPapers"}} }

\* what the endpoint and the disk do during a tool call of a chat turn
ChatNets ==
    { [kind |-> "http_error"],
      [kind |-> "feed", feed |-> <<>>],
      [kind |-> "feed",
       feed |-> << Entry(AbsUrl \o <<"p1">>, "t1",
                         << [title |-> "pdf", href |-> "pdf1"] >>) >>] }

\* the lines the user types
QueryLine == <<"find", " ", "papers">>

\* the lines typed at the protocol chatbot; "/prompts" is the token "/prompt"
\* followed by "s"
Lines ==
    { <<"quit">>, <<"Quit">>, QueryLine,
      <<"/prompt", "s">>,
      <<"/prompt", " ", "generate-search-prompt", " ", "q">>,
      <<"/prompt", " ", "nope">>,
      <<"/resources">> }

\* the lines typed at the local chatbot, which knows no commands but quit
LocalLines == {<<"quit">>, <<"Quit">>, QueryLine, <<"/resources">>}

\* a comparison with "quit" that minds the letter case
IsQuitExact(line) == line = <<"quit">>

\* query.toLowerCase() === "quit"
IsQuit(line) == ToLowerCase(line) = <<"quit">>

\* an exception that escapes an async function nobody awaits or catches: the
\* runtime either ends the process or only warns, depending on its version
RejectionModes == {"crash", "warn"}

UserMessage(query) == [role |-> "user", content |-> query]

CallOutput(call, text) ==
    [type |-> "function_call_output", call_id |-> call.call_id, output |-> text]

NoItem == [type |-> "none"]

\* one run of the code that handles a user line: where it is (pc), the
\* history local to it, the tool-call request it is serving, the tool results it
\* has submitted, whether the line callback awaits it, and the step at which an
\* exception left it, and the output of the response it last acted on
Turn(pc, hist, call, rounds, awaited) ==
    [pc |-> pc, inputs |-> hist, call |-> call, rounds |-> rounds,
     awaited |-> awaited, err |-> "none", response |-> <<>>]

Active(t) == t.pc \notin {"done", "failed"}

Defined(list) == [defined |-> TRUE, list |-> list]

NotDefined == [defined |-> FALSE, list |-> <<>>]

(***************************************************************************)
(* The local chatbot: promptInput with the module-level history.           *)
(***************************************************************************)
LocalToolList == <<"search_papers", "extract_info">>

CurrentTurn == Len(turns)

\* the callbacks of the earlier lines have returned: their local `response`
\* is gone
CallbacksReturned(ts) == [t \in DOMAIN ts |-> [ts[t] EXCEPT !.response = <<>>]]

\* the rl.question callback up to its first await
LocalLine ==
    \E line \in LocalLines :
        /\ program = "local" /\ proc = "running" /\ prompting
        /\ nLines < MaxLines
        /\ nLines' = nLines + 1
        /\ lastLine' = line
        /\ prompting' = FALSE
        /\ IF IsQuit(line)
           THEN /\ proc' = "exited"
                /\ UNCHANGED <<turns, inputs>>
           ELSE /\ inputs' = Append(inputs, UserMessage(line))
                /\ turns' = Append(CallbacksReturned(turns),
                                   Turn("model1", <<>>, NoItem, 0, TRUE))
                /\ UNCHANGED proc
        /\ UNCHANGED <<storeVars, lastCall, nCalls, program, printed, callSeq,
                       startVars, writing>>

\* the exception leaves the callback: nothing calls promptInput again
LocalReject(err) ==
    /\ proc' = IF runtime = "crash" THEN "crashed" ELSE proc
    /\ turns' = [turns EXCEPT ![CurrentTurn].pc = "failed",
                              ![CurrentTurn].err = err]

\* the first response arrives
LocalModel1 ==
    \E r \in Responses(LocalCalls, CallId(CurrentTurn, 1)) :
        /\ program = "local" /\ proc = "running" /\ turns # <<>>
        /\ turns[CurrentTurn].pc = "model1"
        /\ IF r.kind = "error"
           THEN LocalReject("model") /\ UNCHANGED <<printed, prompting, callSeq>>
           ELSE IF OutputText(r.output) # <<>>
           THEN /\ printed' = Append(printed, OutputText(r.output))
                /\ turns' = [turns EXCEPT
                                ![CurrentTurn].pc = "done",
                                ![CurrentTurn].response = r.output]
                /\ prompting' = TRUE
                /\ UNCHANGED <<proc, callSeq>>
           ELSE IF r.output # <<>>
           THEN IF ArgumentsParse(r.output[1])
                THEN /\ turns' = [turns EXCEPT ![CurrentTurn].pc = "tool",
                                               ![CurrentTurn].call = r.output[1],
                                               ![CurrentTurn].response = r.output]
                     /\ callSeq' = callSeq + 1
                     /\ UNCHANGED <<proc, printed, prompting>>
                ELSE LocalReject("parse")
                     /\ UNCHANGED <<printed, prompting, callSeq>>
           ELSE /\ turns' = [turns EXCEPT
                                ![CurrentTurn].pc = "done",
                                ![CurrentTurn].response = r.output]
                /\ prompting' = TRUE
                /\ UNCHANGED <<proc, printed, callSeq>>
        /\ UNCHANGED <<storeVars, lastCall, nCalls, program, lastLine, inputs,
                       nLines, startVars, writing>>

\* executeTool settles: its result goes into the history and the history is
\* submitted again
LocalTool ==
    /\ program = "local" /\ proc = "running" /\ turns # <<>>
    /\ turns[CurrentTurn].pc = "tool"
    /\ \E net \in ChatNets : \E order \in ScanOrders(dirs, files) :
        LET call == turns[CurrentTurn].call
            args == JsonParse(call.arguments)
        IN  \E r \in {ExecuteTool(dirs, files, call.name, args,
                                  [net |-> net, order |-> order])} :
              /\ dirs' = r.dirs
              /\ files' = r.files
              /\ lastCall' = [tool |-> call.name, args |-> args,
                              status |-> r.status, value |-> r.value,
                              requests |-> r.requests, net |-> net,
                              before |-> Absent, id |-> call.call_id]
              /\ IF r.status = "threw"
                 THEN LocalReject("tool") /\ UNCHANGED inputs
                 ELSE /\ inputs' = inputs \o <<call, CallOutput(call, r.value)>>
                      /\ turns' = [turns EXCEPT ![CurrentTurn].pc = "model2",
                                                ![CurrentTurn].rounds = 1]
                      /\ UNCHANGED proc
    /\ UNCHANGED <<nCalls, program, lastLine, prompting, printed, nLines, callSeq,
                   startVars, writing>>

\* the second response arrives: its output_text is printed whatever it holds
LocalModel2 ==
    \E r \in Responses(LocalCalls, CallId(CurrentTurn, 2)) :
        /\ program = "local" /\ proc = "running" /\ turns # <<>>
        /\ turns[CurrentTurn].pc = "model2"
        /\ IF r.kind = "error"
           THEN LocalReject("model") /\ UNCHANGED <<printed, prompting>>
           ELSE /\ printed' = Append(printed, OutputText(r.output))
                /\ turns' = [turns EXCEPT
                                ![CurrentTurn].pc = "done",
                                ![CurrentTurn].response = r.output]
                /\ prompting' = TRUE
                /\ UNCHANGED proc
        /\ UNCHANGED <<storeVars, lastCall, nCalls, program, lastLine, inputs,
                       nLines, callSeq, startVars, writing>>

InitLocal ==
    /\ InitStore
    /\ program = "local"
    /\ proc = "running"
    /\ prompting = TRUE
    /\ turns = <<>>
    /\ inputs = <<>>
    /\ printed = <<>>
    /\ nLines = 0
    /\ lastLine = <<>>
    /\ writing = NoWrite
    /\ callSeq = 0
    /\ tools = Defined(LocalToolList)
    /\ prompts = NotDefined
    /\ resources = NotDefined
    /\ runtime \in RejectionModes

NextLocal == LocalLine \/ LocalModel1 \/ LocalTool \/ LocalModel2

SpecLocal == InitLocal /\ [][NextLocal]_vars

(***************************************************************************)
(* The protocol server: tool and prompt handlers behind callTool/getPrompt. *)
(***************************************************************************)
McpToolNames == {"searchPapers", "extractInfo"}

McpToolList == <<"searchPapers", "extractInfo">>

PromptList == <<"generate-search-prompt">>

\* args[key] of a parsed arguments object
ArgNamed(args, key) ==
    LET S == {i \in DOMAIN args : args[i][1] = key}
    IN  IF S = {} THEN Undefined ELSE args[CHOOSE i \in S : TRUE][2]

\* the zod shape the tool was registered with accepts the arguments
ValidArgs(name, args) ==
    IF name = "searchPapers"
    THEN IsStr(ArgNamed(args, "topic")) /\ IsNum(ArgNamed(args, "maxResults"))
    ELSE IsStr(ArgNamed(args, "paperId"))

Rejected(ds, fl, err) ==
    [status |-> "rejected", value |-> Text(<<err>>), dirs |-> ds, files |-> fl,
     requests |-> <<>>]

\* a result object as the client receives it
ResultObject(r, isError) ==
    [r EXCEPT !.status = "resolved",
              !.value = [kind |-> "object", of |-> r.value, isError |-> isError]]

\* a request for a tool the server does not have, or with arguments its shape
\* refuses, is answered with a protocol error or with an error result,
\* depending on the version of the server library
ProtocolErrorModes == {"reject", "isError"}

\* mcpClient.callTool({name, arguments}): the promise the client gets
CallTool(ds, fl, name, args, env) ==
    IF env.transport = "down" THEN Rejected(ds, fl, "ConnectionClosed")
    ELSE IF name \notin McpToolNames \/ ~ValidArgs(name, args)
    THEN IF env.protocol = "reject"
         THEN Rejected(ds, fl, "McpError")
         ELSE ResultObject(Returned(ds, fl, <<>>, Text(<<"McpError">>)), TRUE)
    ELSE LET r == IF name = "searchPapers"
                  THEN SearchPapers(ds, fl, ArgNamed(args, "topic"),
                                    ArgNamed(args, "maxResults"), env.net)
                  ELSE ExtractInfo(ds, fl, ArgNamed(args, "paperId"), env.order)
         IN  ResultObject(r, r.status = "threw")

\* what the transport, the server library, the endpoint and the disk can do
\* during one callTool
CallEnvs(ds, fl, name, args) ==
    LET Env(tr, pr, net, order) ==
            [transport |-> tr, protocol |-> pr, net |-> net, order |-> order]
    IN  {Env("down", "reject", NoNet, <<>>)}
        \cup (IF name \notin McpToolNames \/ ~ValidArgs(name, args)
              THEN {Env("up", pr, NoNet, <<>>) : pr \in ProtocolErrorModes}
              ELSE IF name = "searchPapers"
              THEN {Env("up", "reject", net, <<>>) : net \in ChatNets}
              ELSE {Env("up", "reject", NoNet, order) :
                      order \in ScanOrders(ds, fl)})

\* the requests a client sends to the server when it drives the tools directly
ServerCalls ==
    { <<"searchPapers", << <<"topic", Str(t)>>, <<"maxResults", Num(2)>> >> >> :
        t \in Topics }
    \cup { <<"searchPapers", << <<"topic", Str(<<"q", " ", "c">>)>> >> >> }
    \cup { <<"extractInfo", << <<"paperId", Str(i)>> >> >> : i \in PaperIdInputs }
    \cup { <<"bogus", <<>> >> }

\* one callTool request, from its sending to the settling of its promise
InvokeServer ==
    \E c \in ServerCalls :
      \E env \in CallEnvs(dirs, files, c[1], c[2]) :
        \E r \in {CallTool(dirs, files, c[1], c[2], env)} :
          /\ nCalls < MaxCalls
          /\ dirs' = r.dirs
          /\ files' = r.files
          /\ lastCall' = [tool |-> c[1], args |-> c[2], status |-> r.status,
                          value |-> r.value, requests |-> r.requests,
                          net |-> env.net, before |-> Absent, id |-> <<>>]
          /\ nCalls' = nCalls + 1
          /\ UNCHANGED <<program, chatVars>>

InitServer == InitStore /\ InitChatIdle /\ program = "server"

SpecServer == InitServer /\ [][InvokeServer]_vars

\* result.toString() of a result object
ObjectToString(v) == Text(<<"[object Object]">>)

\* the text of the prompt message the server builds
PromptText(topic) == <<"Search for academic papers about">> \o topic

\* the prompt's zod shape: topic a string, numPapers an optional number; the
\* client sends every argument it has as a string
PromptArgsValid(args) == Len(args) = 1

(***************************************************************************)
(* The protocol chatbot: promptInput, executePrompt, processQuery.         *)
(***************************************************************************)
\* processQuery or executePrompt has returned or thrown: its local history is
\* gone
Ended(turn, pc, err) ==
    [turn EXCEPT !.pc = pc, !.err = err, !.inputs = <<>>, !.call = NoItem,
                 !.response = <<>>]

\* an exception leaves turn t: no handler catches it
McpReject(t, err) ==
    /\ proc' = IF runtime = "crash" THEN "crashed" ELSE proc
    /\ turns' = [turns EXCEPT ![t] = Ended(@, "failed", err)]

PromptRequest(name, args) == [type |-> "prompt", name |-> name, args |-> args]

\* the rl.question callback up to its first await
McpLine ==
    \E line \in Lines :
        /\ program = "mcp" /\ proc = "running" /\ prompting
        /\ nLines < MaxLines
        /\ nLines' = nLines + 1
        /\ lastLine' = line
        /\ IF IsQuit(line)
           THEN /\ proc' = "exited"
                /\ prompting' = FALSE
                /\ UNCHANGED <<turns, printed>>
           ELSE IF StartsWith(ToLowerCase(line), <<"/prompt", "s">>)
           THEN /\ printed' = Append(printed,
                                     IF prompts.defined THEN prompts.list
                                     ELSE <<"No prompts found.">>)
                /\ UNCHANGED <<proc, prompting, turns>>
           ELSE IF StartsWith(ToLowerCase(line), <<"/prompt">>)
           THEN LET parts == SplitOn(line, " ")
                    promptName == IF Len(parts) > 1 THEN parts[2] ELSE <<>>
                    args == IF Len(parts) > 2
                            THEN SubSeq(parts, 3, Len(parts)) ELSE <<>>
                    found == \E i \in DOMAIN prompts.list :
                                 <<prompts.list[i]>> = promptName
                IN  IF prompts.defined /\ found
                    THEN \* getPrompt awaits the server; promptInput is called
                         \* at once
                         /\ turns' = Append(turns,
                                Turn("getPrompt", <<>>,
                                     PromptRequest(promptName, args), 0, FALSE))
                         /\ UNCHANGED <<proc, prompting, printed>>
                    ELSE \* prompts.find on undefined, or .messages of null
                         /\ proc' = IF runtime = "crash" THEN "crashed" ELSE proc
                         /\ turns' = Append(turns,
                                Ended(Turn("getPrompt", <<>>,
                                           PromptRequest(promptName, args),
                                           0, FALSE),
                                      "failed", "prompt"))
                         /\ printed' = IF prompts.defined
                                       THEN Append(printed,
                                                <<"Prompt not found.">>)
                                       ELSE printed
                         /\ UNCHANGED <<prompting>>
           ELSE IF StartsWith(ToLowerCase(line), <<"/resources">>)
           THEN IF resources.defined
                THEN /\ printed' = Append(printed, resources.list)
                     /\ UNCHANGED <<proc, prompting, turns>>
                ELSE \* resources.forEach on undefined
                     /\ proc' = IF runtime = "crash" THEN "crashed" ELSE proc
                     /\ prompting' = FALSE
                     /\ UNCHANGED <<turns, printed>>
           ELSE /\ turns' = Append(turns,
                       Turn("model", <<UserMessage(line)>>, NoItem, 0, TRUE))
                /\ prompting' = FALSE
                /\ UNCHANGED <<proc, printed>>
        /\ UNCHANGED <<storeVars, lastCall, nCalls, program, inputs, callSeq,
                       startVars, writing>>

\* mcpClient.getPrompt settles; executePrompt starts processQuery and does not
\* await it
McpGetPrompt ==
    \E t \in DOMAIN turns : \E transport \in {"up", "down"} :
        /\ program = "mcp" /\ proc = "running"
        /\ turns[t].pc = "getPrompt"
        /\ IF transport = "up" /\ PromptArgsValid(turns[t].call.args)
           THEN LET query == PromptText(turns[t].call.args[1])
                IN  /\ turns' = [turns EXCEPT
                                   ![t].pc = "model",
                                   ![t].inputs = <<UserMessage(query)>>,
                                   ![t].call = NoItem]
                    /\ UNCHANGED proc
           ELSE McpReject(t, "prompt")
        /\ UNCHANGED <<storeVars, lastCall, nCalls, program, lastLine, prompting, inputs,
                       printed, nLines, callSeq, startVars, writing>>

\* a response arrives in processQuery: one pass of the while loop up to its
\* next await
McpModel ==
    \E t \in DOMAIN turns :
      \E r \in Responses(McpCalls, CallId(t, turns[t].rounds + 1)) :
        /\ program = "mcp" /\ proc = "running"
        /\ turns[t].pc = "model"
        /\ (r.kind = "ok" /\ r.output # <<>> /\ r.output[1].type = "function_call")
              => callSeq < MaxCalls
        /\ IF r.kind = "error"
           THEN McpReject(t, "model") /\ UNCHANGED <<printed, prompting, callSeq>>
           ELSE IF r.output = <<>>
           THEN \* response.output[0].type of undefined
                McpReject(t, "model") /\ UNCHANGED <<printed, prompting, callSeq>>
           ELSE IF r.output[1].type = "message"
           THEN /\ printed' = Append(printed, OutputText(r.output))
                /\ turns' = [turns EXCEPT
                                ![t] = [Ended(@, "done", "none")
                                           EXCEPT !.response = r.output]]
                /\ prompting' = IF turns[t].awaited THEN TRUE ELSE prompting
                /\ UNCHANGED <<proc, callSeq>>
           ELSE IF r.output[1].type = "function_call"
           THEN IF ArgumentsParse(r.output[1])
                THEN /\ turns' = [turns EXCEPT ![t].pc = "tool",
                                               ![t].call = r.output[1],
                                               ![t].response = r.output]
                     /\ callSeq' = callSeq + 1
                     /\ UNCHANGED <<proc, printed, prompting>>
                ELSE McpReject(t, "parse")
                     /\ UNCHANGED <<printed, prompting, callSeq>>
           ELSE \* neither branch of the loop: it spins without an await
                /\ proc' = "hung"
                /\ turns' = [turns EXCEPT ![t].pc = "spinning",
                                          ![t].response = r.output]
                /\ UNCHANGED <<printed, prompting, callSeq>>
        /\ UNCHANGED <<storeVars, lastCall, nCalls, program, lastLine, inputs,
                       nLines, startVars, writing>>

\* callTool of turn t, waiting at position `at`, settles under env: the request
\* and its result go into the turn's history and the history is submitted
\* again
Settle(t, env, at) ==
    /\ program = "mcp" /\ proc = "running"
    /\ turns[t].pc = at
    /\ LET call == turns[t].call
           args == JsonParse(call.arguments)
       IN  \E r \in {CallTool(dirs, files, call.name, args, env)} :
             /\ dirs' = r.dirs
             /\ files' = r.files
             /\ lastCall' = [tool |-> call.name, args |-> args,
                             status |-> r.status, value |-> r.value,
                             requests |-> r.requests, net |-> env.net,
                             before |-> Absent, id |-> call.call_id]
             /\ IF r.status = "rejected"
                THEN McpReject(t, "tool")
                ELSE /\ turns' = [turns EXCEPT
                            ![t].inputs = @ \o
                                <<call, CallOutput(call, ObjectToString(r.value))>>,
                            ![t].pc = "model",
                            ![t].rounds = @ + 1]
                     /\ UNCHANGED proc
    /\ UNCHANGED <<nCalls, program, lastLine, prompting, inputs, printed, nLines,
                   callSeq, startVars>>

\* the environments of the tool call turn t is waiting for
TurnEnvs(t) ==
    CallEnvs(dirs, files, turns[t].call.name, JsonParse(turns[t].call.arguments))

\* the tool call of a turn, from the request to the settling of its promise
McpTool ==
    \E t \in DOMAIN turns :
        /\ turns[t].pc = "tool"
        /\ \E env \in TurnEnvs(t) : Settle(t, env, "tool")
        /\ UNCHANGED writing

\* connectToServers: the catalogs it managed to fetch before an error, if any
StartupOutcomes ==
    { <<NotDefined, NotDefined, NotDefined>>,
      <<Defined(McpToolList), NotDefined, NotDefined>>,
      <<Defined(McpToolList), Defined(PromptList), NotDefined>>,
      <<Defined(McpToolList), Defined(PromptList), Defined(<<"papers://folders">>)>> }

InitMcp ==
    /\ InitStore
    /\ program = "mcp"
    /\ proc = "running"
    /\ prompting = TRUE
    /\ turns = <<>>
    /\ inputs = <<>>
    /\ printed = <<>>
    /\ nLines = 0
    /\ lastLine = <<>>
    /\ writing = NoWrite
    /\ callSeq = 0
    /\ \E o \in StartupOutcomes :
          tools = o[1] /\ prompts = o[2] /\ resources = o[3]
    /\ runtime \in RejectionModes

NextMcp == McpLine \/ McpGetPrompt \/ McpModel \/ McpTool

SpecMcp == InitMcp /\ [][NextMcp]_vars

(***************************************************************************)
(* The protocol chatbot and its server as two processes: the server's      *)
(* writeFileSync opens the partition file with flag "w", which empties it, *)
(* and writes the text afterwards; the chatbot runs meanwhile.             *)
(***************************************************************************)
\* under env the server's search handler gets as far as writeFileSync
WritesPartition(t, env) ==
    /\ turns[t].call.name = "searchPapers"
    /\ env.transport = "up"
    /\ env.net.kind = "feed"

\* the topic of the search turn t has requested
TurnTopic(t) == ArgNamed(JsonParse(turns[t].call.arguments), "topic").s

\* the server has made the topic directory and opened the partition file
ServerBeginWrite ==
    \E t \in DOMAIN turns :
        /\ program = "mcp" /\ proc = "running"
        /\ turns[t].pc = "tool"
        /\ writing = NoWrite
        /\ \E env \in TurnEnvs(t) :
              /\ WritesPartition(t, env)
              /\ writing' = [turn |-> t, env |-> env]
        /\ dirs' = MkdirRecursive(dirs, TopicDir(TurnTopic(t)))
        /\ files' = WriteFile(files, PartitionFile(TurnTopic(t)), Garbage)
        /\ turns' = [turns EXCEPT ![t].pc = "write"]
        /\ UNCHANGED <<lastCall, nCalls, program, proc, prompting, inputs,
                       printed, nLines, lastLine, callSeq, startVars>>

\* the server has written the text and answered; a chatbot that has exited
\* meanwhile does not get the answer
ServerEndWrite ==
    /\ program = "mcp"
    /\ writing # NoWrite
    /\ writing' = NoWrite
    /\ IF proc = "running"
       THEN Settle(writing.turn, writing.env, "write")
       ELSE /\ \E r \in {CallTool(dirs, files, turns[writing.turn].call.name,
                                   JsonParse(turns[writing.turn].call.arguments),
                                   writing.env)} :
                  dirs' = r.dirs /\ files' = r.files
            /\ UNCHANGED <<lastCall, nCalls, program, proc, prompting, turns,
                           inputs, printed, nLines, lastLine, callSeq,
                           startVars>>

\* a tool call that does not get as far as a write
McpToolNoWrite ==
    \E t \in DOMAIN turns :
        /\ turns[t].pc = "tool"
        /\ \E env \in TurnEnvs(t) :
              ~WritesPartition(t, env) /\ Settle(t, env, "tool")
        /\ UNCHANGED writing

NextExit ==
    \/ McpLine \/ McpGetPrompt \/ McpModel
    \/ McpToolNoWrite \/ ServerBeginWrite \/ ServerEndWrite

SpecExit == InitMcp /\ [][NextExit]_vars

\* either chatbot, as started from the command line
InitChat == InitLocal \/ InitMcp

NextChat == NextLocal \/ NextMcp

SpecChat == InitChat /\ [][NextChat]_vars

(***************************************************************************)
(* The command-format client (src/index.js): promptInput parses the line   *)
(* itself, with no model in between.                                       *)
(***************************************************************************)
\* the lines typed at the command-format client; "Search for", "papers on" and
\* "Info on" are tokens
CommandLines ==
    { <<"quit">>,
      <<"Search for", " ", "2", " ", "papers on", " ", "\"", "q", " ", "c", "\"">>,
      <<"Search for", " ", "papers on", " ", "\"", "q", " ", "c", "\"">>,
      <<"Info on", " ", "paper", " ", "p1">>,
      <<"Info on", " ", "p1">>,
      <<"hello">> }

\* query.includes(token)
Includes(line, token) == \E i \in DOMAIN line : line[i] = token

\* the tokens \d+ matches, and parseInt(token, 10)
DigitTokens == {"0", "2", "3"}

ParseInt(token) == IF token = "0" THEN 0 ELSE IF token = "2" THEN 2 ELSE 3

NoMatch == [matched |-> FALSE]

\* query.match(/Search for (\d+) papers on \"(.+)\"/): the leftmost start, the
\* group (.+) running up to the last quote of the line
SearchMatch(line) ==
    LET starts == {i \in DOMAIN line :
                     /\ i + 8 <= Len(line)
                     /\ line[i] = "Search for" /\ line[i + 1] = " "
                     /\ line[i + 2] \in DigitTokens /\ line[i + 3] = " "
                     /\ line[i + 4] = "papers on" /\ line[i + 5] = " "
                     /\ line[i + 6] = "\""
                     /\ \E j \in (i + 8)..Len(line) : line[j] = "\""}
    IN  IF starts = {} THEN NoMatch
        ELSE LET i == CHOOSE k \in starts : \A m \in starts : k <= m
                 j == CHOOSE k \in (i + 8)..Len(line) :
                          /\ line[k] = "\""
                          /\ \A m \in (i + 8)..Len(line) :
                                 line[m] = "\"" => m <= k
             IN  [matched |-> TRUE, count |-> ParseInt(line[i + 2]),
                  topic |-> SubSeq(line, i + 7, j - 1)]

\* the longest prefix of s without whitespace
RECURSIVE NonWsRun(_)
NonWsRun(s) ==
    IF s = <<>> \/ Head(s) \in Whitespace THEN <<>>
    ELSE <<Head(s)>> \o NonWsRun(Tail(s))

\* query.match(/Info on paper ([^\s]+)/)
InfoMatch(line) ==
    LET starts == {i \in DOMAIN line :
                     /\ i + 4 <= Len(line)
                     /\ line[i] = "Info on" /\ line[i + 1] = " "
                     /\ line[i + 2] = "paper" /\ line[i + 3] = " "
                     /\ line[i + 4] \notin Whitespace}
    IN  IF starts = {} THEN NoMatch
        ELSE LET i == CHOOSE k \in starts : \A m \in starts : k <= m
             IN  [matched |-> TRUE,
                  id |-> NonWsRun(SubSeq(line, i + 4, Len(line)))]

NotUnderstood == Text(<<"Sorry, I didn't understand that command.">>)

\* the call promptInput makes for a line, if it makes one
CommandCall(line) ==
    IF Includes(line, "Search for")
    THEN IF SearchMatch(line).matched
         THEN [type |-> "call", name |-> "search_papers",
               args |-> << <<"topic", Str(SearchMatch(line).topic)>>,
                           <<"maxResults", Num(SearchMatch(line).count)>> >>]
         ELSE NoItem
    ELSE IF Includes(line, "Info on") /\ InfoMatch(line).matched
    THEN [type |-> "call", name |-> "extract_info",
          args |-> << <<"paperId", Str(InfoMatch(line).id)>> >>]
    ELSE NoItem

\* the rl.question callback up to its first await
CommandLine ==
    \E line \in CommandLines :
        /\ program = "command" /\ proc = "running" /\ prompting
        /\ nLines < MaxLines
        /\ nLines' = nLines + 1
        /\ lastLine' = line
        /\ IF IsQuit(line)
           THEN /\ proc' = "exited"
                /\ prompting' = FALSE
                /\ UNCHANGED <<turns, printed>>
           ELSE IF CommandCall(line) # NoItem
           THEN /\ turns' = Append(turns,
                                   Turn("tool", <<>>, CommandCall(line), 0, TRUE))
                /\ prompting' = FALSE
                /\ UNCHANGED <<proc, printed>>
           ELSE IF Includes(line, "Search for") \/ Includes(line, "Info on")
           THEN \* the line names a command and does not match its pattern:
                \* nothing is printed, promptInput is called
                UNCHANGED <<proc, prompting, turns, printed>>
           ELSE /\ printed' = Append(printed, NotUnderstood)
                /\ UNCHANGED <<proc, prompting, turns>>
        /\ UNCHANGED <<storeVars, lastCall, nCalls, program, inputs, callSeq,
                       startVars, writing>>

\* executeTool settles: the result is printed and promptInput is called; an
\* exception leaves the callback, which nobody awaits
CommandTool ==
    /\ program = "command" /\ proc = "running" /\ turns # <<>>
    /\ turns[CurrentTurn].pc = "tool"
    /\ \E net \in ChatNets : \E order \in ScanOrders(dirs, files) :
        LET call == turns[CurrentTurn].call
        IN  \E r \in {ExecuteTool(dirs, files, call.name, call.args,
                                  [net |-> net, order |-> order])} :
              /\ dirs' = r.dirs
              /\ files' = r.files
              /\ lastCall' = [tool |-> call.name, args |-> call.args,
                              status |-> r.status, value |-> r.value,
                              requests |-> r.requests, net |-> net,
                              before |-> Absent, id |-> <<>>]
              /\ IF r.status = "threw"
                 THEN /\ proc' = IF runtime = "crash" THEN "crashed" ELSE proc
                      /\ turns' = [turns EXCEPT
                                      ![CurrentTurn] = Ended(@, "failed", "tool")]
                      /\ UNCHANGED <<printed, prompting>>
                 ELSE /\ printed' = Append(printed, r.value)
                      /\ turns' = [turns EXCEPT
                                      ![CurrentTurn] = Ended(@, "done", "none")]
                      /\ prompting' = TRUE
                      /\ UNCHANGED proc
    /\ UNCHANGED <<nCalls, program, lastLine, inputs, nLines, callSeq, startVars,
                   writing>>

InitCommand ==
    /\ InitStore
    /\ program = "command"
    /\ proc = "running"
    /\ prompting = TRUE
    /\ turns = <<>>
    /\ inputs = <<>>
    /\ printed = <<>>
    /\ nLines = 0
    /\ lastLine = <<>>
    /\ writing = NoWrite
    /\ callSeq = 0
    /\ tools = NotDefined /\ prompts = NotDefined /\ resources = NotDefined
    /\ runtime \in RejectionModes

NextCommand == CommandLine \/ CommandTool

SpecCommand == InitCommand /\ [][NextCommand]_vars

(***************************************************************************)
(* Properties of the store and of the adapter (under SpecTools).           *)
(***************************************************************************)
SearchReturned == lastCall.tool = "search_papers" /\ lastCall.status = "returned"

\* the topic and the count of the last search_papers call
CallTopic == lastCall.args[1][2].s

CallCount == IF Len(lastCall.args) > 1 THEN lastCall.args[2][2] ELSE Num(5)

\* the id list a successful search returned
ReturnedIds == lastCall.value.of

\* every outcome extractInfo(id) can have on the current store
LookupOutcomes(id) ==
    {ExtractInfo(dirs, files, Str(id), order) : order \in ScanOrders(dirs, files)}

\* no partition file holds a record under id
InNoPartition(id) ==
    \A p \in DOMAIN files : JsonParses(files[p]) => id \notin DOMAIN JsonParse(files[p])

\* C2: every id in the list a search returned is retrievable by lookup right
\* afterwards, and the record returned has an id field equal to that id
C2_RoundTrip ==
    SearchReturned =>
        \A i \in DOMAIN ReturnedIds : \A r \in LookupOutcomes(ReturnedIds[i]) :
            /\ r.status = "returned"
            /\ r.value.kind = "json"
            /\ "id" \in DOMAIN r.value.of
            /\ r.value.of.id = ReturnedIds[i]

FeedIds(feed) == {EntryId(feed[i]) : i \in DOMAIN feed}

\* C3: after a second search on a partition that an earlier search wrote, the
\* partition holds exactly the records of the second search: its keys are the
\* ids of the second feed, each record is one extracted from that feed, and no
\* record found only in the earlier content remains
C3_IdempotentOverwrite ==
    (SearchReturned /\ lastCall.before.kind = "json") =>
        LET now == ContentOf(files, PartitionFile(CallTopic))
            feed == lastCall.net.feed
        IN  /\ now.kind = "json"
            /\ DOMAIN now.of = FeedIds(feed)
            /\ \A id \in DOMAIN now.of :
                  \E i \in DOMAIN feed :
                      EntryId(feed[i]) = id /\ now.of[id] = PaperInfo(feed[i])
            /\ \A id \in DOMAIN lastCall.before.of \ FeedIds(feed) :
                  id \notin DOMAIN now.of

\* a second search has replaced a partition that held a record the second
\* feed does not have
C3_Witness ==
    /\ SearchReturned
    /\ lastCall.before.kind = "json"
    /\ DOMAIN lastCall.before.of \ FeedIds(lastCall.net.feed) # {}
    /\ lastCall.net.feed # <<>>

\* C4: lookup of an id that no partition contains returns the not-found
\* result naming the id, and never throws, on an empty or a populated store
C4_NotFoundContract ==
    (lastCall.tool = "extract_info" /\ InNoPartition(lastCall.args[1][2].s)) =>
        /\ lastCall.status = "returned"
        /\ lastCall.value = NotFoundText(lastCall.args[1][2])

\* C7: a search with a count of 0 or less is rejected before any request is
\* sent, and leaves the partition as it was
C7_RejectsNonPositiveCount ==
    (lastCall.tool = "search_papers" /\ IsNum(CallCount) /\ CallCount.n <= 0) =>
        /\ lastCall.requests = <<>>
        /\ lastCall.status = "threw"
        /\ ContentOf(files, PartitionFile(CallTopic)) = lastCall.before

\* the adapter's UnknownTool outcome: the not-found text as the result
IsUnknownTool(call) ==
    /\ call.status = "returned"
    /\ call.value.kind = "text"
    /\ call.value.of = <<"Tool not found.">>

\* C10: invoke with a name that is not in the catalog fails with UnknownTool
C10_UnknownToolFails ==
    (lastCall.tool \notin ToolNames \cup {"none"}) => IsUnknownTool(lastCall)

(***************************************************************************)
(* Properties of the conversation loops (under SpecLocal and SpecMcp).     *)
(***************************************************************************)
IsCall(e) == "type" \in DOMAIN e /\ e.type = "function_call"

IsOutput(e) == "type" \in DOMAIN e /\ e.type = "function_call_output"

\* hist holds the request call followed, later, by exactly one result entry
\* with its call identifier
PairedIn(hist, call) ==
    \E i \in DOMAIN hist :
        /\ IsCall(hist[i]) /\ hist[i] = call
        /\ LET outs == {j \in DOMAIN hist :
                          IsOutput(hist[j]) /\ hist[j].call_id = call.call_id}
           IN  Cardinality(outs) = 1 /\ \A j \in outs : j > i

\* the bound a configuration of the loop would name; the loop reads none
ToolLoopBound == MaxCalls - 1

\* C1: no user turn makes more tool-call round trips than the configured
\* bound: a turn whose every response is a tool-call request is stopped
C1_ToolLoopBounded ==
    \A t \in DOMAIN turns : turns[t].rounds <= ToolLoopBound

\* C5: when a tool invocation of the current turn has failed, the turn is not
\* aborted: the history holds a result entry for the call
C5_ToolFailureFedBack ==
    (program = "local" /\ lastCall.status = "threw") =>
        /\ turns[CurrentTurn].pc # "failed"
        /\ PairedIn(inputs, turns[CurrentTurn].call)

\* C6: after a model call of the latest turn has failed, the process is alive
\* and is prompting for the next line (unless the user has quit since)
C6_ModelFailureSurvived ==
    (/\ program = "local"
     /\ turns # <<>>
     /\ turns[CurrentTurn].err = "model"
     /\ proc # "exited") =>
        proc = "running" /\ prompting

\* C8: at most one turn is running, and no line is being accepted while one is
C8_OneUtteranceAtATime ==
    LET running == {t \in DOMAIN turns : Active(turns[t])}
    IN  /\ Cardinality(running) <= 1
        /\ running # {} => ~prompting

\* C9: every tool call the loop has executed has its request in the history,
\* followed by exactly one result entry with the same call identifier
C9_ExecutedCallPaired ==
    program = "local" =>
        \A t \in DOMAIN turns :
            (IsCall(turns[t].call) /\ turns[t].pc # "tool") =>
                PairedIn(inputs, turns[t].call)

\* the feed the last search received
CallFeed == lastCall.net.feed

\* the content of the partition of the last search's topic
CallPartition == ContentOf(files, PartitionFile(CallTopic))

\* C12: a search whose feed has n entries leaves a partition, keyed by the
\* normalized topic, that holds n records, and returns the n extracted ids in
\* feed order
C12_FeedStored ==
    SearchReturned =>
        /\ CallPartition.kind = "json"
        /\ Cardinality(DOMAIN CallPartition.of) = Len(CallFeed)
        /\ Len(ReturnedIds) = Len(CallFeed)
        /\ \A i \in DOMAIN CallFeed : ReturnedIds[i] = EntryId(CallFeed[i])

\* the last call was a search that the endpoint answered with an empty feed
EmptyFeedSearch ==
    /\ lastCall.tool = "search_papers"
    /\ lastCall.net.kind = "feed"
    /\ lastCall.net.feed = <<>>

\* C13: a search whose feed has no entries succeeds: it returns the empty id
\* list and leaves an empty partition for the topic, whatever the partition
\* held before
C13_EmptyFeedSucceeds ==
    EmptyFeedSearch =>
        /\ lastCall.status = "returned"
        /\ lastCall.value = JsonText(<<>>)
        /\ CallPartition.kind = "json"
        /\ DOMAIN CallPartition.of = {}

\* an empty feed has replaced a partition that held records
C13_Witness ==
    /\ EmptyFeedSearch
    /\ lastCall.status = "returned"
    /\ lastCall.before.kind = "json"
    /\ DOMAIN lastCall.before.of # {}
    /\ DOMAIN CallPartition.of = {}

\* the partition files whose content is not a JSON text
CorruptPartitions == {p \in DOMAIN files : ~JsonParses(files[p])}

\* the records the readable partitions directly under the paper directory
\* hold for id
ReadableRecords(id) ==
    {JsonParse(files[p])[id] :
        p \in {q \in DOMAIN files :
                 /\ Len(q) = Len(PaperDirPath) + 2
                 /\ JsonParses(files[q])
                 /\ id \in DOMAIN JsonParse(files[q])}}

\* C14: with a corrupt partition in the store, lookup still returns the record
\* when a readable partition has the id and not-found otherwise; it does not
\* fail
C14_CorruptPartitionSkipped ==
    (lastCall.tool = "extract_info" /\ CorruptPartitions # {}) =>
        LET id == lastCall.args[1][2]
        IN  /\ lastCall.status = "returned"
            /\ IF ReadableRecords(id.s) # {}
               THEN \E rec \in ReadableRecords(id.s) :
                        lastCall.value = JsonText(rec)
               ELSE lastCall.value = NotFoundText(id)

\* C16: the topics that use the partition a search has written are exactly
\* the topics with the search topic's normalized name (its lower-cased form
\* with whitespace runs collapsed): same name, same partition, and one
\* partition, one name
C16_PartitionPerNormalizedTopic ==
    SearchReturned =>
        /\ CallPartition.kind = "json"
        /\ \A u \in Topics \cup {DoubledSlashTopic} :
              (TopicKey(u) = TopicKey(CallTopic))
                  <=> (PartitionFile(u) = PartitionFile(CallTopic))

\* the partition files extractInfo reads: those of the names directly under
\* the paper directory
DirectPartitions ==
    {p \in DOMAIN files : Len(p) = Len(PaperDirPath) + 2 /\ Last(p) = INFO_FILE}

\* the direct partitions that hold a record under id
HoldersOf(id) ==
    {p \in DirectPartitions :
        JsonParses(files[p]) /\ id \in DOMAIN JsonParse(files[p])}

\* C15: lookup of an id that exactly one partition holds returns that
\* partition's record, whatever empty partitions and directories without a
\* partition file the store has besides
C15_FoundAmongEmptyPartitions ==
    (/\ lastCall.tool = "extract_info"
     /\ CorruptPartitions = {}
     /\ Cardinality(HoldersOf(lastCall.args[1][2].s)) = 1) =>
        /\ lastCall.status = "returned"
        /\ \A p \in HoldersOf(lastCall.args[1][2].s) :
              lastCall.value =
                  JsonText(JsonParse(files[p])[lastCall.args[1][2].s])

\* a lookup found its record in a store that also has an empty partition
C15_Witness ==
    /\ lastCall.tool = "extract_info"
    /\ lastCall.status = "returned"
    /\ CorruptPartitions = {}
    /\ Cardinality(HoldersOf(lastCall.args[1][2].s)) = 1
    /\ lastCall.value.kind = "json"
    /\ \E p \in DirectPartitions :
          JsonParses(files[p]) /\ DOMAIN JsonParse(files[p]) = {}

\* the transcript form of a tool result: JSON text for an object, the string
\* itself for a string
Normalized(v) == IF v.kind = "object" THEN JsonText(v.of) ELSE v

\* the histories that are live: the module-level one and those of the turns
Histories == {inputs} \cup {turns[t].inputs : t \in DOMAIN turns}

\* C11: the tool-result entry of the last tool call carries the call's result
\* in transcript form: JSON text for an object result, the string itself for
\* a string result
C11_ResultNormalized ==
    \A hist \in Histories : \A i \in DOMAIN hist :
        (IsOutput(hist[i]) /\ hist[i].call_id = lastCall.id) =>
            hist[i].output = Normalized(lastCall.value)

\* the callback of rl.question has received a line
LineRead == nLines' = nLines + 1

\* the line just received starts a turn of the conversation loop whose
\* history ends with it as the user's utterance
QueryPassed ==
    /\ Len(turns') = Len(turns) + 1
    /\ IF program = "local"
       THEN /\ turns'[Len(turns')].pc = "model1"
            /\ inputs' = Append(inputs, UserMessage(lastLine'))
       ELSE /\ turns'[Len(turns')].pc = "model"
            /\ turns'[Len(turns')].inputs = <<UserMessage(lastLine')>>

\* the lines the protocol chatbot treats as commands
IsCommand(line) ==
    \/ StartsWith(ToLowerCase(line), <<"/prompt">>)
    \/ StartsWith(ToLowerCase(line), <<"/resources">>)

Pending(t) == turns[t].pc \in {"model", "model1", "model2"}

\* the history turn t submits: the module-level array of the local chatbot,
\* the array of this processQuery call in the protocol chatbot
Submitted(t) == IF program = "local" THEN inputs ELSE turns[t].inputs

IsUser(e) == "role" \in DOMAIN e /\ e.role = "user"

IsAnswer(e) == "role" \in DOMAIN e /\ e.role = "assistant"

\* the turns before t that ended with an answer
EarlierAnswered(t) == {u \in 1..(t - 1) : turns[u].pc = "done"}

\* the answer texts the local chatbot has shown
AnswersPrinted == {i \in DOMAIN printed : printed[i] # <<>>}

\* C18: the history a turn submits holds the utterance of every earlier
\* answered turn besides its own, and every text answer given so far
C18_HistoryKept ==
    \A t \in DOMAIN turns :
        Pending(t) =>
            /\ Cardinality({i \in DOMAIN Submitted(t) : IsUser(Submitted(t)[i])})
                   >= Cardinality(EarlierAnswered(t)) + 1
            /\ program = "local" =>
                   Cardinality({i \in DOMAIN Submitted(t) :
                                   IsAnswer(Submitted(t)[i])})
                       >= Cardinality(AnswersPrinted)

\* the disk refused to open or to write the partition file during the call
StorageWriteFailed ==
    /\ lastCall.tool = "search_papers"
    /\ lastCall.net.kind \in {"disk_open_error", "disk_write_error"}

\* C19: a search during which the disk refuses the partition file ends with
\* an exception at its caller and no id list; and a search that returns an
\* id list has written the whole partition
C19_WriteFailurePropagates ==
    /\ StorageWriteFailed =>
          /\ lastCall.status = "threw"
          /\ lastCall.value.kind = "text"
    /\ SearchReturned =>
          /\ lastCall.net.kind = "feed"
          /\ CallPartition = JsonText(PapersInfo(CallFeed))

\* the write of the partition file failed part-way and the search threw
C19_Witness ==
    /\ StorageWriteFailed
    /\ lastCall.net.kind = "disk_write_error"
    /\ lastCall.status = "threw"
    /\ CallPartition = Garbage

\* the last call was a search whose arguments hold a topic and no count
CountOmitted ==
    /\ lastCall.tool \in {"search_papers", "searchPapers"}
    /\ Len(lastCall.args) = 1
    /\ lastCall.args[1][1] = "topic"

\* the call reached the code that serves it
Delivered == lastCall.value # Text(<<"ConnectionClosed">>)

\* C20: a search invoked without a count sends the endpoint one request,
\* for 5 entries
C20_DefaultCountIsFive ==
    (CountOmitted /\ Delivered) =>
        lastCall.requests = <<ApiRequest(lastCall.args[1][2], Num(5))>>

\* a turn has just failed on the arguments of a tool-call request
ParseFailure ==
    \E t \in DOMAIN turns :
        /\ t \in DOMAIN turns'
        /\ turns[t].err = "none"
        /\ turns'[t].err = "parse"

\* no turn serves, and no history holds, a tool-call request whose arguments
\* do not parse; the turn that got one has failed
MalformedCallNotServed ==
    /\ \A t \in DOMAIN turns :
          /\ IsCall(turns[t].call) => JsonParses(turns[t].call.arguments)
          /\ turns[t].err = "parse" =>
                turns[t].pc = "failed" /\ turns[t].call = NoItem
    /\ \A hist \in Histories : \A i \in DOMAIN hist :
          IsCall(hist[i]) => JsonParses(hist[i].arguments)

\* C21: a tool-call request with malformed arguments makes its turn fail;
\* no tool is invoked for it (the store and the record of the last tool call
\* stay as they were) and no entry is appended to the history
C21_MalformedCallFails ==
    /\ []MalformedCallNotServed
    /\ [][ParseFailure =>
            UNCHANGED <<dirs, files, lastCall, nCalls, inputs>>]_vars

\* a turn of the local chatbot has failed on malformed arguments
C21_Witness ==
    /\ program = "local"
    /\ turns # <<>>
    /\ turns[Len(turns)].pc = "failed"
    /\ turns[Len(turns)].err = "parse"

\* response.output[0]
FirstItem(output) == IF output = <<>> THEN NoItem ELSE output[1]

\* C22: a turn ends with an answer only on a text message: when the model
\* follows a served tool-call request with another one, that one is served
\* too, so a turn that has ended was not left on a tool-call request
C22_EveryToolRequestServed ==
    \A t \in DOMAIN turns :
        (turns[t].pc = "done" /\ turns[t].rounds >= 1) =>
            ~IsCall(FirstItem(turns[t].response))

\* C23: what a turn does with a response is decided by the response's first
\* item: the request it serves is that item, a turn does not end on a first
\* response whose first item is a tool-call request, and a response whose
\* first item is a text message ends the turn
C23_FirstItemDecides ==
    \A t \in DOMAIN turns :
        /\ turns[t].pc = "tool" => turns[t].call = FirstItem(turns[t].response)
        /\ (turns[t].pc = "done" /\ turns[t].rounds = 0) =>
               ~IsCall(FirstItem(turns[t].response))
        /\ FirstItem(turns[t].response).type = "message" => turns[t].pc = "done"

\* the turn of the line read last
PreviousTurn == turns[Len(turns)]

\* a turn prints its answer in this step
Responds ==
    \E t \in DOMAIN turns :
        /\ t \in DOMAIN turns'
        /\ turns[t].pc # "done"
        /\ turns'[t].pc = "done"

\* the loop waits for a line only when the turn of the last line is over
PromptOnlyAfterTurn == (prompting /\ turns # <<>>) => ~Active(PreviousTurn)

\* C24: when a turn has printed its answer the loop waits for a line again,
\* and it waits for a line only when the turn of the last line is over
C24_PromptAfterAnswer ==
    /\ [][Responds => prompting']_vars
    /\ []PromptOnlyAfterTurn

\* the catalog listTools has fetched from the server: what the submission of
\* a waiting turn carries
CatalogFetched ==
    \A t \in DOMAIN turns :
        Pending(t) => tools.defined /\ tools.list = McpToolList

\* C25: every model submission carries the catalog that listTools fetched at
\* startup, and the catalog variable is never assigned after startup
C25_CatalogFetchedOnce ==
    /\ []CatalogFetched
    /\ [][tools' = tools]_vars

\* this step is a call of the named tool
Calls(tool) == nCalls' = nCalls + 1 /\ lastCall'.tool = tool

\* the partition file of the search this step makes
OwnPartition == PartitionFile(lastCall'.args[1][2].s)

\* C26: a lookup, and a call of a tool the adapter does not have, leave the
\* store as it is; a search removes no directory and leaves every partition
\* file but its own with the content it had
C26_OnlyOwnPartitionChanges ==
    [][/\ (nCalls' = nCalls + 1 /\ lastCall'.tool # "search_papers") =>
             UNCHANGED <<dirs, files>>
       /\ Calls("search_papers") =>
             /\ dirs \subseteq dirs'
             /\ \A p \in (DOMAIN files \cup DOMAIN files') \ {OwnPartition} :
                   ContentOf(files', p) = ContentOf(files, p)]_vars

\* a search has written its partition in a store that holds records in
\* another partition
C26_Witness ==
    /\ SearchReturned
    /\ ReturnedIds # <<>>
    /\ \E p \in DOMAIN files \ {PartitionFile(CallTopic)} :
          JsonParses(files[p]) /\ DOMAIN JsonParse(files[p]) # {}

\* a successful search leaves the partition of its topic on disk
PartitionCreated == SearchReturned => PartitionFile(CallTopic) \in DOMAIN files

\* C27: no step removes a partition file; a partition file comes into
\* being only in a search, as the partition of the searched topic; and after
\* a successful search the partition of its topic exists
C27_PartitionNeverDeleted ==
    /\ []PartitionCreated
    /\ [][/\ DOMAIN files \subseteq DOMAIN files'
           /\ DOMAIN files' # DOMAIN files =>
                 /\ Calls("search_papers")
                 /\ DOMAIN files' \ DOMAIN files = {OwnPartition}]_vars

\* a partition written by an earlier search is still there after a search
\* of its topic that failed
C27_Witness ==
    /\ lastCall.tool = "search_papers"
    /\ lastCall.status = "threw"
    /\ lastCall.before.kind = "json"
    /\ PartitionFile(CallTopic) \in DOMAIN files

\* C28: when the chatbot has exited on quit, every partition file holds a
\* complete text, that of the search that wrote it last
C28_NoPartialPartitionAtExit ==
    proc = "exited" => \A p \in DOMAIN files : JsonParses(files[p])

\* the request failed, or the feed it returned could not be parsed
UpstreamFailed(call) == call.net.kind \in {"http_error", "bad_xml"}

\* C29: a search whose request fails or whose feed cannot be parsed fails
\* and leaves directories and files as they were
C29_FailedSearchKeepsStore ==
    [][(Calls("search_papers") /\ UpstreamFailed(lastCall')) =>
          /\ lastCall'.status = "threw"
          /\ UNCHANGED <<dirs, files>>]_vars

\* a search has failed at the endpoint while the partition of its topic was
\* on disk, and the partition holds what it held
C29_Witness ==
    /\ lastCall.tool = "search_papers"
    /\ UpstreamFailed(lastCall)
    /\ lastCall.status = "threw"
    /\ lastCall.before.kind = "json"
    /\ DOMAIN lastCall.before.of # {}
    /\ CallPartition = lastCall.before

\* the request of a search for args.topic with the count args.max_results
NamedRequest(args) ==
    ApiRequest(Get(args, "topic"),
               IF Get(args, "max_results") = Undefined THEN Num(5)
               ELSE Get(args, "max_results"))

\* C30: the adapter passes the arguments by name: a search_papers call asks the
\* endpoint for args.topic with the count args.max_results whatever the order
\* of the keys, and an extract_info call answers with the lookup of
\* args.paper_id
C30_ArgumentsByName ==
    /\ [](lastCall.tool = "search_papers" =>
              lastCall.requests = << NamedRequest(lastCall.args) >>)
    /\ [][Calls("extract_info") =>
              \E order \in ScanOrders(dirs, files) :
                  lastCall'.value =
                      ExtractInfo(dirs, files, Get(lastCall'.args, "paper_id"),
                                  order).value]_vars

\* the loop of processQuery is going round on a response it has no branch for
Spinning(t) == turns[t].pc = "spinning"

\* C31: every model response moves the turn forward: no turn is left going
\* round on one response whose first item is neither a message nor a
\* tool-call request
C31_ResponseMovesTurn ==
    \A t \in DOMAIN turns :
        (turns[t].response # <<>>
            /\ FirstItem(turns[t].response).type \notin {"message", "function_call"})
            => ~Spinning(t) /\ proc # "hung"

\* C32: after a successful search the keys of the partition it wrote are the
\* ids of the list it returned, and every key is a non-empty string
C32_KeysAreReturnedIds ==
    SearchReturned =>
        /\ CallPartition.kind = "json"
        /\ DOMAIN CallPartition.of = {ReturnedIds[i] : i \in DOMAIN ReturnedIds}
        /\ \A id \in DOMAIN CallPartition.of : id # <<>>

\* C33: the partition file a successful search has written is one the lookup
\* scan reads: <paper directory>/<one segment>/papers_info.json
C33_SearchWritesScannedPartition ==
    SearchReturned =>
        /\ PartitionFile(CallTopic) \in DOMAIN files
        /\ PartitionFile(CallTopic) \in DirectPartitions

\* C34: the chat loop has started a turn, and a turn waits for the model's
\* answer to a submission, only with the tool catalog loaded, whatever
\* happened at startup
C34_CatalogLoadedBeforeChat ==
    /\ turns # <<>> => tools.defined
    /\ \A t \in DOMAIN turns : Pending(t) => tools.defined

\* the tool names of the catalog the local chatbot gives to the model
Advertised == {LocalToolList[i] : i \in DOMAIN LocalToolList}

\* C35: the names of the local catalog are the keys of the name-to-function
\* map, and a call of an advertised tool never gives the tool-not-found result
C35_AdvertisedToolsDispatch ==
    /\ Advertised = ToolNames
    /\ lastCall.tool \in Advertised => lastCall.value # ToolNotFound

\* a lookup of an unknown paper: the tool is found, the paper is not
C35_Witness ==
    /\ lastCall.tool = "extract_info" /\ lastCall.tool \in Advertised
    /\ lastCall.status = "returned"
    /\ lastCall.value = NotFoundText(lastCall.args[1][2])

\* the latest line is a /prompt command naming a prompt the fetched list lacks
UnknownPromptTyped ==
    /\ lastLine = <<"/prompt", " ", "nope">>
    /\ prompts.defined
    /\ \A i \in DOMAIN prompts.list : prompts.list[i] # "nope"

\* C36: a /prompt command with a name that is not in the fetched list reports
\* that the prompt was not found, starts no model submission and no tool
\* call, and leaves the chat loop reading the next line
C36_UnknownPromptReported ==
    UnknownPromptTyped =>
        /\ \E i \in DOMAIN printed : printed[i] = <<"Prompt not found.">>
        /\ ~Pending(Len(turns)) /\ turns[Len(turns)].pc # "tool"
        /\ turns[Len(turns)].rounds = 0
        /\ proc = "running" /\ prompting

\* C37: at the command-format client every line other than quit has given
\* one visible outcome when the next prompt is shown: a search result, a
\* lookup result, or the message that the command was not understood
C37_OneOutcomePerLine ==
    (program = "command" /\ proc = "running" /\ prompting) =>
        Len(printed) = nLines

============================================================================
